---- MODULE Spec2Model ----
(***************************************************************************)
(* State-machine model of the two automation scripts                       *)
(*   src/api/v3/automate.js  (API v3)                                      *)
(*   src/ApiV2/automate.js   (API v2)                                      *)
(* One run of a script is one behaviour: the top-level argument checks,    *)
(* then the async main function, one action per awaited operation.  The    *)
(* server and the file system are the environment: every response is       *)
(* chosen nondeterministically.  A successful response is taken to carry a *)
(* well-formed JSON body, except where an action says otherwise.           *)
(***************************************************************************)
EXTENDS Integers, Sequences, FiniteSets, TLC

(***************************************************************************)
(* Bounds                                                                  *)
(***************************************************************************)
MaxPolls == 3      \* status requests issued in one run
MaxBody == 3       \* characters after the prefix of a raw endpoint

(***************************************************************************)
(* JavaScript values: undefined, numbers, strings (sequences of            *)
(* characters), and their truthiness.                                      *)
(***************************************************************************)
Undefined == [t |-> "undefined", n |-> 0, s |-> <<>>]
Num(k) == [t |-> "number", n |-> k, s |-> <<>>]
Str(x) == [t |-> "string", n |-> 0, s |-> x]

Truthy(v) ==
    CASE v.t = "undefined" -> FALSE
      [] v.t = "number" -> v.n # 0
      [] v.t = "string" -> v.s # <<>>

(***************************************************************************)
(* getEndpoint, on strings represented as sequences of characters.         *)
(***************************************************************************)
endsWith(str, c) == Len(str) > 0 /\ str[Len(str)] = c

startsWith(str, p) == Len(str) >= Len(p) /\ SubSeq(str, 1, Len(p)) = p

sliceDropLast(str) == SubSeq(str, 1, Len(str) - 1)

HttpPrefix == <<"h", "t", "t", "p">>
HttpsScheme == <<"h", "t", "t", "p", "s", ":", "/", "/">>

stripTrailingSlash(str) == IF endsWith(str, "/") THEN sliceDropLast(str) ELSE str

needsScheme_always(str) == TRUE

needsScheme(str) == ~ startsWith(str, HttpPrefix)

getEndpoint(rawEndpoint) ==
    LET stripped == stripTrailingSlash(rawEndpoint)
    IN  IF needsScheme(stripped) THEN HttpsScheme \o stripped ELSE stripped

(***************************************************************************)
(* Command-line inputs and environment values.                             *)
(***************************************************************************)
Versions == {"v2", "v3"}

Emails == {Undefined, Str(<<"e">>)}
Passwords == {Undefined, Str(<<"p">>)}
OutputDirs == {Undefined, Str(<<"o">>)}
JawPaths == {Undefined, Str(<<"u">>), Str(<<"l">>), Str(<<"d", "/">>), Str(<<"d", "/", "u">>)}

\* the (upper, lower) pairs a run is started with: none, one missing, an empty
\* base name, two different base names, one base name under two paths
JawPathPairs ==
    { <<Undefined, Undefined>>,
      <<Str(<<"u">>), Undefined>>,
      <<Undefined, Str(<<"l">>)>>,
      <<Str(<<"d", "/">>), Str(<<"l">>)>>,
      <<Str(<<"u">>), Str(<<"l">>)>>,
      <<Str(<<"u">>), Str(<<"d", "/", "u">>)>> }
UnnsArgs == {Undefined, [t |-> "array", n |-> 0, s |-> <<11, 21>>]}
OrderIdArgs == {Undefined, Num(0), Num(7), Str(<<>>), Str(<<"A">>)}

DefaultEndpoint ==
    <<"h","t","t","p","s",":","/","/","a","u","t","o","m","a","t","e",
      ".","3","s","h","a","p","e",".","c","o","m">>

ServerIds == {Num(5), Str(<<"S">>)}
Codes == {200, 401, 500}
ErrorTexts == {"", "order rejected"}
Bytes == {"b1", "b2"}

TruthyArg(v) == IF v.t = "array" THEN TRUE ELSE Truthy(v)

(***************************************************************************)
(* State                                                                   *)
(***************************************************************************)
VARIABLES
    version,      \* which script runs
    args,         \* parsed command line (argv)
    pc,           \* position of the run
    trace,        \* every awaited operation so far, with its outcome
    anti,         \* login: the antiforgery headers fetched before the POST
    auth,         \* login: the cookie token of the login response
    headers,      \* main: the header set login returned
    orderId,      \* main: the order id of the run
    orderFile,    \* v2 upload: the order file of the qualification response
    polled,       \* waitForReady: let status
    status,       \* main: the status waitForReady returned
    buffer,       \* download: the response body
    written,      \* files written by fs.writeFile
    error,        \* the error that ended the run
    inflight,     \* the awaited operations started and not yet completed
    upperContent, \* getScanZipAsBuffer / getUploadContent: const upperContent
    lowerContent, \* getScanZipAsBuffer / getUploadContent: const lowerContent
    zip,          \* the entries of the JsZip archive, in insertion order
    rawEndpoint,  \* argv._[0] ?? default
    endpoint,     \* getEndpoint(rawEndpoint)
    twice,        \* getEndpoint applied to endpoint
    epc,          \* position of the endpoint resolution
    first         \* the requests and responses of an earlier run of the script

vars == <<version, args, pc, trace, anti, auth, headers, orderId, orderFile,
          polled, status, buffer, written, error, inflight, upperContent,
          lowerContent, zip, rawEndpoint, endpoint, twice, epc, first>>

runVars == <<version, args, pc, trace, anti, auth, headers, orderId, orderFile,
             polled, status, buffer, written, error, inflight, upperContent,
             lowerContent, zip>>

NoHeaders == <<>>
\* no earlier run of the script to compare with
NoFirst == [none |-> TRUE]
NoStatus == [none |-> TRUE]
NoError == [none |-> TRUE]
NoFile == [none |-> TRUE]

(***************************************************************************)
(* Events of the trace and errors.                                         *)
(***************************************************************************)
NetworkOps == {"check", "xsrf", "login", "create", "qualify", "submit",
               "upload", "status", "review", "accept", "download"}
SessionOps == {"create", "qualify", "submit", "upload", "status", "review",
               "accept", "download"}
FinalOps == {"review", "accept", "download"}

responseOk(code) == code >= 200 /\ code <= 299

\* what a response body carries besides a status: an order id, a text, bytes
NoContent == [id |-> Undefined, text |-> "", bytes |-> ""]

\* an HTTP request and its response
Req(op, id, code, hdrs, body, st) ==
    [op |-> op, id |-> id, ok |-> responseOk(code), code |-> <<code>>,
     hdrs |-> hdrs, body |-> body, st |-> st, resp |-> NoContent]

\* a file operation, the archive generation or a sleep
Local(op, ok) ==
    [op |-> op, id |-> Undefined, ok |-> ok, code |-> <<>>,
     hdrs |-> <<>>, body |-> <<>>, st |-> NoStatus, resp |-> NoContent]

\* Error(`${message} [${status}]`) in v3, Error(message) in v2
StepError(message, code) ==
    [name |-> "Error", message |-> message,
     status |-> IF version = "v3" THEN <<code>> ELSE <<>>]

PlainError(message) == [name |-> "Error", message |-> message, status |-> <<>>]

TypeError == [name |-> "TypeError", message |-> "null has no split", status |-> <<>>]

ReferenceError ==
    [name |-> "ReferenceError", message |-> "response is not defined", status |-> <<>>]

JsonError == [name |-> "FetchError", message |-> "invalid json", status |-> <<>>]

FsError == [name |-> "Error", message |-> "ENOENT", status |-> <<>>]

jsonHeader == <<"Content-Type", <<"application/json">>>>

uploadContentTypeHeader == <<"Content-Type", <<"multipart/form-data">>>>

\* v3 makeCookieHeader(token), v2 makeCookieHeader(parts)
makeCookieHeader(parts) == <<"cookie", parts>>

\* what the server issues on the n-th token fetch, and on login
AntiforgeryToken(n) == IF n = 1 THEN "af1" ELSE "af2"
VerificationHeader(n) == <<"RequestVerificationToken", <<IF n = 1 THEN "vt1" ELSE "vt2">>>>
LoginToken == "auth"

Count(op) == Cardinality({i \in 1..Len(trace) : trace[i].op = op})

(***************************************************************************)
(* Top-level argument checks (both scripts, lines 10-40).                  *)
(***************************************************************************)
IsSeparator(c) == c \in {"\\", "|", "/"}

\* path?.split(/[\\|\/]/)?.pop()
scanName(path) ==
    IF path.t = "undefined" THEN Undefined
    ELSE LET seps == {i \in 1..Len(path.s) : IsSeparator(path.s[i])}
             last == IF seps = {} THEN 0 ELSE CHOOSE i \in seps : \A j \in seps : j <= i
         IN  Str(SubSeq(path.s, last + 1, Len(path.s)))

upperJawScanName == scanName(args.upperjaw)
lowerJawScanName == scanName(args.lowerjaw)

missingCredentials == ~ Truthy(args.email) \/ ~ Truthy(args.password)

missingOrderInput ==
    /\ ~ Truthy(args.orderid)
    /\ (~ Truthy(args.upperjaw) \/ ~ Truthy(args.lowerjaw) \/ ~ TruthyArg(args.unns))

missingOutput_neverChecked == FALSE

\* if (!outputDirectory) throw
missingOutput == ~ Truthy(args.output)

badScanNames ==
    /\ ~ Truthy(args.orderid)
    /\ (~ Truthy(upperJawScanName) \/ ~ Truthy(lowerJawScanName))

Abort(err) == pc' = "aborted" /\ error' = err

argumentChecks ==
    /\ pc = "load"
    /\ IF missingCredentials
         THEN Abort(PlainError("Please supply email and password!")) /\ UNCHANGED endpoint
       ELSE IF missingOrderInput
         THEN Abort(PlainError("Please supply paths to upper and lower jaws and the unns."))
              /\ UNCHANGED endpoint
       ELSE IF missingOutput
         THEN Abort(PlainError("Please supply a path to the output")) /\ UNCHANGED endpoint
       ELSE /\ endpoint' = getEndpoint(rawEndpoint)
            /\ IF badScanNames
                 THEN Abort(PlainError("Scans paths not correct!"))
                 ELSE pc' = "check" /\ UNCHANGED error
    /\ UNCHANGED <<version, args, trace, anti, auth, headers, orderId, orderFile,
                   polled, status, buffer, written, rawEndpoint, twice, epc>>
    /\ UNCHANGED <<inflight, upperContent, lowerContent, zip>>
    /\ UNCHANGED first

(***************************************************************************)
(* await: every fetch, file operation, archive generation and sleep of the *)
(* scripts is the operand of an await, so the operation at the control     *)
(* point is started only when nothing is outstanding, and control stays at *)
(* that point until the operation has completed.                           *)
(***************************************************************************)
AwaitPoints == {"check", "xsrf1", "login", "xsrf2", "create", "qualify", "readUpper",
                "readLower", "zip", "submit", "upload", "status", "sleep", "review",
                "accept", "download", "write"}

\* Promise.all-like start of both scan reads
startable_bothReads(point, outstanding) ==
    IF outstanding = {} THEN {point}
    ELSE IF point = "readUpper" /\ outstanding = {"readUpper"} THEN {"readLower"}
    ELSE {}

\* the operations that may be started at a control point
startable(point, outstanding) == IF outstanding = {} THEN {point} ELSE {}

beginAwait ==
    /\ pc \in AwaitPoints
    /\ \E op \in startable(pc, inflight) : inflight' = inflight \cup {op}
    /\ inflight' # inflight
    /\ UNCHANGED <<version, args, pc, trace, anti, auth, headers, orderId, orderFile,
                   polled, status, buffer, written, error, upperContent, lowerContent,
                   zip, rawEndpoint, endpoint, twice, epc>>
    /\ UNCHANGED first

(***************************************************************************)
(* main: the endpoint check.                                               *)
(***************************************************************************)
endpointRejected_neverChecked(code) == FALSE

\* main: if (!checkResponse.ok) throw
endpointRejected(code) == ~ responseOk(code)

endpointCheck ==
    /\ pc = "check"
    /\ pc \in inflight
    /\ inflight' = inflight \ {pc}
    /\ \E code \in Codes :
        /\ trace' = Append(trace, Req("check", Undefined, code, <<>>, <<>>, NoStatus))
        /\ IF endpointRejected(code)
             THEN Abort(StepError("Issues at endpoint!", code))
             ELSE pc' = "xsrf1" /\ UNCHANGED error
    /\ UNCHANGED <<version, args, anti, auth, headers, orderId, orderFile,
                   polled, status, buffer, written, rawEndpoint, endpoint, twice, epc>>
    /\ UNCHANGED <<upperContent, lowerContent, zip>>
    /\ UNCHANGED first

(***************************************************************************)
(* login: token fetch, login POST, token fetch under the login cookie.     *)
(***************************************************************************)
\* getAntiforgeryHeaders (v3) / getTokens (v2): if (!response.ok) throw
tokensRejected(code) == ~ responseOk(code)

loginRejected_neverChecked(code) == FALSE

\* login: if (!loginResponse.ok) throw
loginRejected(code) == ~ responseOk(code)

\* what the throw statement of a rejected login raises: the v3 template reads
\* the undeclared name `response`, the v2 message is a plain string
loginError(code) ==
    IF version = "v3" THEN ReferenceError ELSE StepError("Unable to log in!", code)

\* the verification header of the first fetch kept after login
finalHeaders_keepsInitial(afToken, vtHeader, loginToken) ==
    <<makeCookieHeader(<<afToken, loginToken>>), VerificationHeader(1)>>

\* the header set login returns
\*   v3: antiforgeryHeaders.concat([authHeader])
\*   v2: [makeCookieHeader([antiforgeryToken, loginToken]), verificationTokenHeader]
finalHeaders(afToken, vtHeader, loginToken) ==
    IF version = "v3"
      THEN <<makeCookieHeader(<<afToken>>), vtHeader, makeCookieHeader(<<loginToken>>)>>
      ELSE <<makeCookieHeader(<<afToken, loginToken>>), vtHeader>>

\* main: existingOrderId ? existingOrderId : await send(headers) / upload(headers)
reuseOrder == Truthy(args.orderid)

fetchInitialTokens ==
    /\ pc = "xsrf1"
    /\ pc \in inflight
    /\ inflight' = inflight \ {pc}
    /\ \E code \in Codes, setCookie \in BOOLEAN :
        /\ trace' = Append(trace, Req("xsrf", Undefined, code, <<>>, <<>>, NoStatus))
        /\ IF tokensRejected(code)
             THEN Abort(StepError("Unable to get antiforgery token!", code)) /\ UNCHANGED anti
           ELSE IF ~ setCookie
             THEN Abort(TypeError) /\ UNCHANGED anti
           ELSE /\ anti' = <<makeCookieHeader(<<AntiforgeryToken(1)>>), VerificationHeader(1)>>
                /\ pc' = "login"
                /\ UNCHANGED error
    /\ UNCHANGED <<version, args, auth, headers, orderId, orderFile, polled, status,
                   buffer, written, rawEndpoint, endpoint, twice, epc>>
    /\ UNCHANGED <<upperContent, lowerContent, zip>>
    /\ UNCHANGED first

loginPost ==
    /\ pc = "login"
    /\ pc \in inflight
    /\ inflight' = inflight \ {pc}
    /\ \E code \in Codes, setCookie \in BOOLEAN :
        /\ trace' = Append(trace, Req("login", Undefined, code, anti \o <<jsonHeader>>,
                                      <<args.email, args.password>>, NoStatus))
        /\ IF loginRejected(code)
             THEN Abort(loginError(code)) /\ UNCHANGED auth
           ELSE IF ~ setCookie
             THEN Abort(TypeError) /\ UNCHANGED auth
           ELSE /\ auth' = LoginToken
                /\ pc' = "xsrf2"
                /\ UNCHANGED error
    /\ UNCHANGED <<version, args, anti, headers, orderId, orderFile, polled, status,
                   buffer, written, rawEndpoint, endpoint, twice, epc>>
    /\ UNCHANGED <<upperContent, lowerContent, zip>>
    /\ UNCHANGED first

fetchSessionTokens ==
    /\ pc = "xsrf2"
    /\ pc \in inflight
    /\ inflight' = inflight \ {pc}
    /\ \E code \in Codes, setCookie \in BOOLEAN :
        /\ trace' = Append(trace, Req("xsrf", Undefined, code,
                                      <<makeCookieHeader(<<auth>>)>>, <<>>, NoStatus))
        /\ IF tokensRejected(code)
             THEN /\ Abort(StepError("Unable to get antiforgery token!", code))
                  /\ UNCHANGED <<headers, orderId>>
           ELSE IF ~ setCookie
             THEN Abort(TypeError) /\ UNCHANGED <<headers, orderId>>
           ELSE /\ headers' = finalHeaders(AntiforgeryToken(2), VerificationHeader(2), auth)
                /\ IF reuseOrder
                     THEN orderId' = args.orderid /\ pc' = "status"
                     ELSE /\ UNCHANGED orderId
                          /\ pc' = IF version = "v3" THEN "create" ELSE "qualify"
                /\ UNCHANGED error
    /\ UNCHANGED <<version, args, anti, auth, orderFile, polled, status,
                   buffer, written, rawEndpoint, endpoint, twice, epc>>
    /\ UNCHANGED <<upperContent, lowerContent, zip>>
    /\ UNCHANGED first

(***************************************************************************)
(* Order submission: createOrder + submitOrder (v3), upload (v2).          *)
(***************************************************************************)
QualificationBodies == {"notjson", "nofield", "error", "clear"}

\* qualificationMessage.orderFile: its name may or may not be that of a scan
ServerOrderFiles ==
    {[name |-> <<"x">>, content |-> <<"orderfile">>],
     [name |-> <<"u">>, content |-> <<"orderfile">>]}

\* fs.readFile(path): the bytes stored at that path
readFile(path) == <<"bytes of">> \o path.s

\* JsZip file(name, data): adds an entry, or replaces the entry of that name
zipFile(entries, name, data) ==
    IF \E i \in 1..Len(entries) : entries[i].name = name
      THEN [i \in 1..Len(entries) |->
                IF entries[i].name = name THEN [name |-> name, content |-> data]
                                          ELSE entries[i]]
      ELSE Append(entries, [name |-> name, content |-> data])

\* the zip.file calls of getScanZipAsBuffer (v3) / getUploadContent (v2)
archiveEntries(upper, lower) ==
    LET scans == zipFile(zipFile(<<>>, upperJawScanName.s, upper),
                         lowerJawScanName.s, lower)
    IN  IF version = "v3" THEN scans
        ELSE zipFile(scans, orderFile.name, orderFile.content)

\* array.concat(more): a new array; the receiver is left as it was
concat(array, more) == array \o more

receiverAfterConcat_pushed(array, more) == array \o more

receiverAfterConcat(array, more) == array

orderInfo_withPassword ==
    <<args.unns, scanName(args.upperjaw), scanName(args.lowerjaw), args.password>>

\* createOrder / upload: const orderInfo = { unns, upperJawScanName, lowerJawScanName, ... }
orderInfo == <<args.unns, upperJawScanName, lowerJawScanName>>

\* createOrder: if (!response.ok) throw Error(await response.text())
createRejected(code) == ~ responseOk(code)

qualificationRejected_neverChecked(code, body) == FALSE

\* v2 upload: the only test made on the qualification response is
\* qualificationMessage.errorMessage != "" on its parsed body
qualificationRejected(code, body) == body # "clear"

\* the error a rejected qualification raises: json() fails on a body that is
\* not JSON; Error(undefined) has an empty message
qualificationError(body) ==
    CASE body = "notjson" -> JsonError
      [] body = "nofield" -> PlainError("")
      [] OTHER -> PlainError("not qualified")

\* submitOrder / upload: if (!response.ok) throw
uploadRejected(code) == ~ responseOk(code)

createOrder ==
    /\ pc = "create"
    /\ pc \in inflight
    /\ inflight' = inflight \ {pc}
    /\ \E code \in Codes, id \in ServerIds, text \in ErrorTexts :
        /\ trace' = Append(trace, [Req("create", Undefined, code, concat(headers, <<jsonHeader>>),
                                       orderInfo, NoStatus)
                                    EXCEPT !.resp = [id |-> id, text |-> text, bytes |-> ""]])
        /\ IF createRejected(code)
             THEN Abort(PlainError(text)) /\ UNCHANGED orderId
             ELSE orderId' = id /\ pc' = "readUpper" /\ UNCHANGED error
    /\ UNCHANGED <<version, args, anti, auth, orderFile, polled, status,
                   buffer, written, rawEndpoint, endpoint, twice, epc>>
    /\ UNCHANGED <<upperContent, lowerContent, zip>>
    /\ headers' = receiverAfterConcat(headers, <<jsonHeader>>)
    /\ UNCHANGED first

qualifyOrder ==
    /\ pc = "qualify"
    /\ pc \in inflight
    /\ inflight' = inflight \ {pc}
    /\ \E code \in Codes, body \in QualificationBodies, id \in ServerIds,
          file \in ServerOrderFiles :
        /\ trace' = Append(trace, [Req("qualify", Undefined, code, concat(headers, <<jsonHeader>>),
                                       orderInfo, NoStatus)
                                    EXCEPT !.resp = [id |-> id, text |-> body, bytes |-> ""]])
        /\ IF qualificationRejected(code, body)
             THEN Abort(qualificationError(body)) /\ UNCHANGED <<orderId, orderFile>>
             ELSE /\ orderId' = id
                  /\ orderFile' = file
                  /\ pc' = "readUpper"
                  /\ UNCHANGED error
    /\ UNCHANGED <<version, args, anti, auth, polled, status,
                   buffer, written, rawEndpoint, endpoint, twice, epc>>
    /\ UNCHANGED <<upperContent, lowerContent, zip>>
    /\ headers' = receiverAfterConcat(headers, <<jsonHeader>>)
    /\ UNCHANGED first

\* await fs.readFile(upperJawPath)
readUpperJaw ==
    /\ pc = "readUpper"
    /\ pc \in inflight
    /\ inflight' = inflight \ {pc}
    /\ \E ok \in BOOLEAN :
        /\ trace' = Append(trace, Local("readUpper", ok))
        /\ IF ok
             THEN /\ upperContent' = readFile(args.upperjaw)
                  /\ pc' = "readLower"
                  /\ UNCHANGED error
             ELSE Abort(FsError) /\ UNCHANGED upperContent
    /\ UNCHANGED <<lowerContent, zip>>
    /\ UNCHANGED <<version, args, anti, auth, headers, orderId, orderFile, polled, status,
                   buffer, written, rawEndpoint, endpoint, twice, epc>>
    /\ UNCHANGED first

\* await fs.readFile(lowerJawPath)
readLowerJaw ==
    /\ pc = "readLower"
    /\ pc \in inflight
    /\ inflight' = inflight \ {pc}
    /\ \E ok \in BOOLEAN :
        /\ trace' = Append(trace, Local("readLower", ok))
        /\ IF ok
             THEN /\ lowerContent' = readFile(args.lowerjaw)
                  /\ zip' = archiveEntries(upperContent, lowerContent')
                  /\ pc' = "zip"
                  /\ UNCHANGED error
             ELSE Abort(FsError) /\ UNCHANGED <<lowerContent, zip>>
    /\ UNCHANGED upperContent
    /\ UNCHANGED <<version, args, anti, auth, headers, orderId, orderFile, polled, status,
                   buffer, written, rawEndpoint, endpoint, twice, epc>>
    /\ UNCHANGED first

\* await zip.generateAsync(...)
generateZip ==
    /\ pc = "zip"
    /\ pc \in inflight
    /\ inflight' = inflight \ {pc}
    /\ trace' = Append(trace, Local("zip", TRUE))
    /\ pc' = IF version = "v3" THEN "submit" ELSE "upload"
    /\ UNCHANGED <<version, args, anti, auth, headers, orderId, orderFile, polled, status,
                   buffer, written, error, rawEndpoint, endpoint, twice, epc>>
    /\ UNCHANGED <<upperContent, lowerContent, zip>>
    /\ UNCHANGED first

submitOrder ==
    /\ pc = "submit"
    /\ pc \in inflight
    /\ inflight' = inflight \ {pc}
    /\ \E code \in Codes :
        /\ trace' = Append(trace, Req("submit", orderId, code,
                                      concat(headers, <<uploadContentTypeHeader>>), zip, NoStatus))
        /\ IF uploadRejected(code)
             THEN Abort(StepError("Upload failed", code))
             ELSE pc' = "status" /\ UNCHANGED error
    /\ UNCHANGED <<version, args, anti, auth, orderId, orderFile, polled, status,
                   buffer, written, rawEndpoint, endpoint, twice, epc>>
    /\ UNCHANGED <<upperContent, lowerContent, zip>>
    /\ headers' = receiverAfterConcat(headers, <<uploadContentTypeHeader>>)
    /\ UNCHANGED first

upload ==
    /\ pc = "upload"
    /\ pc \in inflight
    /\ inflight' = inflight \ {pc}
    /\ \E code \in Codes :
        /\ trace' = Append(trace, Req("upload", orderId, code,
                                      concat(headers, <<uploadContentTypeHeader>>), zip, NoStatus))
        /\ IF uploadRejected(code)
             THEN Abort(StepError("Upload failed", code))
             ELSE pc' = "status" /\ UNCHANGED error
    /\ UNCHANGED <<version, args, anti, auth, orderId, orderFile, polled, status,
                   buffer, written, rawEndpoint, endpoint, twice, epc>>
    /\ UNCHANGED <<upperContent, lowerContent, zip>>
    /\ headers' = receiverAfterConcat(headers, <<uploadContentTypeHeader>>)
    /\ UNCHANGED first

(***************************************************************************)
(* waitForReady / getStatus.                                               *)
(***************************************************************************)
\* the status objects the server may return; v3 reports reviewable, v2 accepted,
\* and neither is reported while the order is processing
StatusValues ==
    {st \in {[processing |-> p, failed |-> f, reviewable |-> r, accepted |-> a] :
                p \in BOOLEAN, f \in BOOLEAN,
                r \in (IF version = "v3" THEN BOOLEAN ELSE {FALSE}),
                a \in (IF version = "v2" THEN BOOLEAN ELSE {FALSE})} :
        st.processing => ~ st.reviewable /\ ~ st.accepted}

\* getStatus: if (!response.ok) throw
statusRejected(code) == ~ responseOk(code)

keepsWaiting_stopsOnFailed(st) == st.processing /\ ~ st.failed

keepsWaiting_returnsAtOnce(st) == FALSE

\* waitForReady: while (status.processing)
keepsWaiting(st) == st.processing

processingFailed_neverChecked(st) == FALSE

\* waitForReady: if (status.failed) throw
processingFailed(st) == st.failed

needsAccept_unified(st) == st.reviewable

\* v3 acceptAndDownload: if (status.reviewable); v2 download: if (!status.accepted)
needsAccept(st) == IF version = "v3" THEN st.reviewable ELSE ~ st.accepted

getStatus ==
    /\ pc = "status"
    /\ pc \in inflight
    /\ inflight' = inflight \ {pc}
    /\ Count("status") < MaxPolls
    /\ \E code \in Codes, st \in StatusValues :
        /\ trace' = Append(trace, Req("status", orderId, code, concat(headers, <<jsonHeader>>), <<>>,
                                      IF statusRejected(code) THEN NoStatus ELSE st))
        /\ IF statusRejected(code)
             THEN Abort(StepError("Unable to get status", code)) /\ UNCHANGED <<polled, status>>
           ELSE /\ polled' = st
                /\ IF keepsWaiting(st)
                     THEN pc' = "sleep" /\ UNCHANGED <<status, error>>
                   ELSE IF processingFailed(st)
                     THEN Abort(PlainError("Processing failed")) /\ UNCHANGED status
                   ELSE /\ status' = st
                        /\ pc' = IF ~ needsAccept(st) THEN "download"
                                 ELSE IF version = "v3" THEN "review" ELSE "accept"
                        /\ UNCHANGED error
    /\ UNCHANGED <<version, args, anti, auth, orderId, orderFile,
                   buffer, written, rawEndpoint, endpoint, twice, epc>>
    /\ UNCHANGED <<upperContent, lowerContent, zip>>
    /\ headers' = receiverAfterConcat(headers, <<jsonHeader>>)
    /\ UNCHANGED first

\* await sleep(30000)
sleep ==
    /\ pc = "sleep"
    /\ pc \in inflight
    /\ inflight' = inflight \ {pc}
    /\ trace' = Append(trace, Local("sleep", TRUE))
    /\ pc' = "status"
    /\ UNCHANGED <<version, args, anti, auth, headers, orderId, orderFile, polled, status,
                   buffer, written, error, rawEndpoint, endpoint, twice, epc>>
    /\ UNCHANGED <<upperContent, lowerContent, zip>>
    /\ UNCHANGED first

(***************************************************************************)
(* review (v3) / accept (v2), download, writeFile.                         *)
(***************************************************************************)
\* review / accept: if (!response.ok) throw
acceptRejected(code) == ~ responseOk(code)

downloadRejected_neverChecked(code) == FALSE

\* download: if (!response.ok) throw
downloadRejected(code) == ~ responseOk(code)

review ==
    /\ pc = "review"
    /\ pc \in inflight
    /\ inflight' = inflight \ {pc}
    /\ \E code \in Codes :
        /\ trace' = Append(trace, Req("review", orderId, code, concat(headers, <<jsonHeader>>),
                                      <<Str(<<"accept">>)>>, NoStatus))
        /\ IF acceptRejected(code)
             THEN Abort(StepError("Unable to accept", code))
             ELSE pc' = "download" /\ UNCHANGED error
    /\ UNCHANGED <<version, args, anti, auth, orderId, orderFile, polled, status,
                   buffer, written, rawEndpoint, endpoint, twice, epc>>
    /\ UNCHANGED <<upperContent, lowerContent, zip>>
    /\ headers' = receiverAfterConcat(headers, <<jsonHeader>>)
    /\ UNCHANGED first

accept ==
    /\ pc = "accept"
    /\ pc \in inflight
    /\ inflight' = inflight \ {pc}
    /\ \E code \in Codes :
        /\ trace' = Append(trace, Req("accept", orderId, code, concat(headers, <<jsonHeader>>),
                                      <<orderId>>, NoStatus))
        /\ IF acceptRejected(code)
             THEN Abort(StepError("Unable to accept", code))
             ELSE pc' = "download" /\ UNCHANGED error
    /\ UNCHANGED <<version, args, anti, auth, orderId, orderFile, polled, status,
                   buffer, written, rawEndpoint, endpoint, twice, epc>>
    /\ UNCHANGED <<upperContent, lowerContent, zip>>
    /\ headers' = receiverAfterConcat(headers, <<jsonHeader>>)
    /\ UNCHANGED first

download ==
    /\ pc = "download"
    /\ pc \in inflight
    /\ inflight' = inflight \ {pc}
    /\ \E code \in Codes, bytes \in Bytes :
        /\ trace' = Append(trace, [Req("download", orderId, code, concat(headers, <<jsonHeader>>),
                                       <<>>, NoStatus)
                                    EXCEPT !.resp = [id |-> Undefined, text |-> "",
                                                     bytes |-> bytes]])
        /\ IF downloadRejected(code)
             THEN Abort(StepError("Unable to download", code)) /\ UNCHANGED buffer
             ELSE buffer' = bytes /\ pc' = "write" /\ UNCHANGED error
    /\ UNCHANGED <<version, args, anti, auth, orderId, orderFile, polled, status,
                   written, rawEndpoint, endpoint, twice, epc>>
    /\ UNCHANGED <<upperContent, lowerContent, zip>>
    /\ headers' = receiverAfterConcat(headers, <<jsonHeader>>)
    /\ UNCHANGED first

\* await fs.writeFile(`${outputDirectory}\\${orderId}.zip`, buffer)
writeFile ==
    /\ pc = "write"
    /\ pc \in inflight
    /\ inflight' = inflight \ {pc}
    /\ \E ok \in BOOLEAN :
        /\ trace' = Append(trace, Local("writeFile", ok))
        /\ IF ok
             THEN /\ written' = Append(written, [dir |-> args.output, name |-> orderId,
                                                 content |-> buffer])
                  /\ pc' = "done"
                  /\ UNCHANGED error
             ELSE Abort(FsError) /\ UNCHANGED written
    /\ UNCHANGED <<version, args, anti, auth, headers, orderId, orderFile, polled, status,
                   buffer, rawEndpoint, endpoint, twice, epc>>
    /\ UNCHANGED <<upperContent, lowerContent, zip>>
    /\ UNCHANGED first

(***************************************************************************)
(* The run of a script.                                                    *)
(***************************************************************************)
Init ==
    /\ version \in Versions
    /\ args \in {[email |-> e, password |-> p, upperjaw |-> jaws[1],
                  lowerjaw |-> jaws[2], unns |-> u, output |-> o, orderid |-> id] :
                    e \in Emails, p \in Passwords, jaws \in JawPathPairs,
                    u \in UnnsArgs, o \in OutputDirs, id \in OrderIdArgs}
    /\ pc = "load"
    /\ trace = <<>>
    /\ anti = <<>>
    /\ auth = ""
    /\ headers = NoHeaders
    /\ orderId = Undefined
    /\ orderFile = NoFile
    /\ polled = NoStatus
    /\ status = NoStatus
    /\ buffer = ""
    /\ written = <<>>
    /\ error = NoError
    /\ inflight = {}
    /\ upperContent = <<>>
    /\ lowerContent = <<>>
    /\ zip = <<>>
    /\ rawEndpoint = DefaultEndpoint
    /\ endpoint = <<>>
    /\ twice = <<>>
    /\ epc = "run"
    /\ first = NoFirst

Next ==
    \/ argumentChecks
    \/ beginAwait
    \/ endpointCheck
    \/ fetchInitialTokens
    \/ loginPost
    \/ fetchSessionTokens
    \/ createOrder
    \/ qualifyOrder
    \/ readUpperJaw
    \/ readLowerJaw
    \/ generateZip
    \/ submitOrder
    \/ upload
    \/ getStatus
    \/ sleep
    \/ review
    \/ accept
    \/ download
    \/ writeFile

Spec == Init /\ [][Next]_vars

\* every awaited operation settles and the event loop then resumes the script
SpecLive == Spec /\ WF_vars(Next)

(***************************************************************************)
(* The script run twice: once a run has ended it is started again with the *)
(* same arguments except the password, and the second run is given the     *)
(* responses the first run was given.                                      *)
(***************************************************************************)
\* the value of --password in the second run
TwinPassword == Str(<<"q">>)

\* the runs that are repeated have complete arguments
InitPair ==
    /\ Init
    /\ args.email # Undefined
    /\ args.password # Undefined
    /\ args.output # Undefined
    /\ args.unns # Undefined
    /\ args.upperjaw = Str(<<"u">>)
    /\ args.lowerjaw = Str(<<"l">>)
    /\ args.orderid \in {Undefined, Num(7)}

\* what came back from the operation of an event
Response(ev) == [ok |-> ev.ok, code |-> ev.code, st |-> ev.st, resp |-> ev.resp]

\* the second run has been given the responses of the first, in order
sameResponses ==
    \/ first = NoFirst
    \/ /\ Len(trace) <= Len(first.trace)
       /\ \A i \in 1..Len(trace) : Response(trace[i]) = Response(first.trace[i])
       /\ orderFile \in {NoFile, first.orderFile}

\* node automate.js ... --password <another>
runAgain ==
    /\ first = NoFirst
    /\ pc \in {"done", "aborted"}
    /\ first' = [trace |-> trace, orderFile |-> orderFile, password |-> args.password]
    /\ args' = [args EXCEPT !.password = TwinPassword]
    /\ pc' = "load"
    /\ trace' = <<>>
    /\ anti' = <<>>
    /\ auth' = ""
    /\ headers' = NoHeaders
    /\ orderId' = Undefined
    /\ orderFile' = NoFile
    /\ polled' = NoStatus
    /\ status' = NoStatus
    /\ buffer' = ""
    /\ written' = <<>>
    /\ error' = NoError
    /\ inflight' = {}
    /\ upperContent' = <<>>
    /\ lowerContent' = <<>>
    /\ zip' = <<>>
    /\ endpoint' = <<>>
    /\ UNCHANGED <<version, rawEndpoint, twice, epc>>

NextPair ==
    \/ Next /\ sameResponses'
    \/ runAgain

SpecPair == InitPair /\ [][NextPair]_vars

(***************************************************************************)
(* getEndpoint on its own: the raw endpoint ranges over bounded strings,   *)
(* the script resolves it once, and the result is resolved again.          *)
(***************************************************************************)
EndpointPrefixes ==
    { <<>>,
      <<"h", "t", "t", "p">>,
      <<"h", "t", "t", "p", ":", "/", "/">>,
      <<"h", "t", "t", "p", "s", ":", "/", "/">>,
      <<"f", "t", "p", ":", "/", "/">> }

BodyChars == {"a", "/"}

Bodies == UNION {[1..k -> BodyChars] : k \in 0..MaxBody}

RawEndpoints == {p \o b : p \in EndpointPrefixes, b \in Bodies}

InitEndpoint ==
    /\ version = "v3"
    /\ args = [email |-> Undefined, password |-> Undefined, upperjaw |-> Undefined,
               lowerjaw |-> Undefined, unns |-> Undefined, output |-> Undefined,
               orderid |-> Undefined]
    /\ pc = "endpoint"
    /\ trace = <<>>
    /\ anti = <<>>
    /\ auth = ""
    /\ headers = NoHeaders
    /\ orderId = Undefined
    /\ orderFile = NoFile
    /\ polled = NoStatus
    /\ status = NoStatus
    /\ buffer = ""
    /\ written = <<>>
    /\ error = NoError
    /\ inflight = {}
    /\ upperContent = <<>>
    /\ lowerContent = <<>>
    /\ zip = <<>>
    /\ rawEndpoint \in RawEndpoints
    /\ endpoint = <<>>
    /\ twice = <<>>
    /\ epc = "raw"
    /\ first = NoFirst

\* const endpoint = getEndpoint(rawEndpoint)
resolveEndpoint ==
    /\ epc = "raw"
    /\ endpoint' = getEndpoint(rawEndpoint)
    /\ epc' = "once"
    /\ UNCHANGED <<runVars, rawEndpoint, twice>>
    /\ UNCHANGED first

\* getEndpoint applied to its own result
resolveAgain ==
    /\ epc = "once"
    /\ twice' = getEndpoint(endpoint)
    /\ epc' = "twice"
    /\ UNCHANGED <<runVars, rawEndpoint, endpoint>>
    /\ UNCHANGED first

NextEndpoint == resolveEndpoint \/ resolveAgain

SpecEndpoint == InitEndpoint /\ [][NextEndpoint]_vars

(***************************************************************************)
(* Properties                                                              *)
(***************************************************************************)
Idx == 1..Len(trace)

Issued(ops) == \E i \in Idx : trace[i].op \in ops

\* the three requests of login have all returned success before event i
LoggedInBefore(i) ==
    \E c \in 1..(i - 1) :
        /\ trace[c].op = "xsrf" /\ trace[c].ok
        /\ \E b \in 1..(c - 1) :
            /\ trace[b].op = "login" /\ trace[b].ok
            /\ \E a \in 1..(b - 1) : trace[a].op = "xsrf" /\ trace[a].ok

\* C1: no request that needs the session is issued before login has returned
\* (anonymous token fetch, login POST and post-login token fetch all
\* successful); after a non-success login POST or token fetch the run is
\* aborted and no such request is ever issued.
C1_SessionBeforeOrderCalls ==
    /\ \A i \in Idx : trace[i].op \in SessionOps =>
            headers # NoHeaders /\ LoggedInBefore(i)
    /\ \A j \in Idx : (trace[j].op \in {"xsrf", "login"} /\ ~ trace[j].ok) =>
            /\ pc = "aborted"
            /\ j = Len(trace)
            /\ ~ Issued(SessionOps)

C1_Witness ==
    /\ pc = "done"
    /\ \E i \in Idx : trace[i].op = "download" /\ trace[i].ok /\ LoggedInBefore(i)

\* the last status request before event i, if any
LastPollBefore(i) ==
    LET polls == {j \in 1..(i - 1) : trace[j].op = "status"}
    IN  IF polls = {} THEN 0 ELSE CHOOSE j \in polls : \A k \in polls : k <= j

\* C2: a review/accept or download request is issued only after waitForReady
\* returned, and the status it returned, which is the last status polled, has
\* processing false and failed false.
C2_FinalizeOnlyWhenReady ==
    \A i \in Idx : trace[i].op \in FinalOps =>
        /\ status # NoStatus
        /\ ~ status.processing /\ ~ status.failed
        /\ LastPollBefore(i) # 0
        /\ trace[LastPollBefore(i)].ok
        /\ trace[LastPollBefore(i)].st = status
        /\ polled = status

C2_Witness ==
    /\ Count("status") >= 2
    /\ \E i \in Idx : trace[i].op \in {"review", "accept"}
    /\ \E i \in Idx : trace[i].op = "download"

IsPoll(i) == trace[i].op = "status" /\ trace[i].ok

\* C3: k statuses with processing true followed by one with processing false
\* and failed false: exactly k+1 status requests, one sleep after each of the
\* first k and none after the last, and the last status is returned.
C3_PollCount ==
    /\ \A i \in Idx : (IsPoll(i) /\ trace[i].st.processing) =>
            IF i = Len(trace) THEN pc = "sleep" ELSE trace[i + 1].op = "sleep"
    /\ \A i \in Idx : trace[i].op = "sleep" =>
            /\ i > 1 /\ IsPoll(i - 1) /\ trace[i - 1].st.processing
            /\ IF i = Len(trace) THEN pc = "status" ELSE trace[i + 1].op = "status"
    /\ \A i \in Idx : (IsPoll(i) /\ ~ trace[i].st.processing /\ ~ trace[i].st.failed) =>
            /\ status = trace[i].st
            /\ \A j \in Idx : j > i => trace[j].op \notin {"status", "sleep"}
            /\ \A j \in 1..(i - 1) : trace[j].op = "status" =>
                    IsPoll(j) /\ trace[j].st.processing
            /\ Count("sleep") = Count("status") - 1

C3_Witness ==
    /\ Count("status") = 3
    /\ Count("sleep") = 2
    /\ status # NoStatus
    /\ ~ status.processing /\ ~ status.failed

\* waitForReady raised its error at status event i and nothing followed
RaisedAt(i) ==
    /\ pc = "aborted"
    /\ error = PlainError("Processing failed")
    /\ i = Len(trace)
    /\ status = NoStatus

\* C4 as stated: whenever getStatus returns a status with failed true, whatever
\* its other flags, waitForReady raises and no status, review/accept or
\* download request follows.
C4_Original ==
    \A i \in Idx : (IsPoll(i) /\ trace[i].st.failed) => RaisedAt(i)

\* C4 as amended: whenever getStatus returns a status with failed true and
\* processing false, waitForReady raises and no status, review/accept or
\* download request follows; a status with processing true is polled again
\* whatever its failed flag.
C4_FailedStopsRun ==
    \A i \in Idx : (IsPoll(i) /\ trace[i].st.failed /\ ~ trace[i].st.processing) => RaisedAt(i)

C4_Witness ==
    /\ Count("status") >= 2
    /\ Len(trace) > 0
    /\ IsPoll(Len(trace))
    /\ trace[Len(trace)].st.failed
    /\ RaisedAt(Len(trace))

\* C5: after any HTTP call returns a non-success status the run is aborted:
\* that call is the last operation of the run (no later request, no scan
\* file read) and no output file is written.
C5_NonSuccessAborts ==
    \A i \in Idx : (trace[i].op \in NetworkOps /\ ~ trace[i].ok) =>
        /\ pc = "aborted"
        /\ i = Len(trace)
        /\ written = <<>>

\* the message the failing step's error is to carry
StepMessage(op) ==
    CASE op = "check" -> "Issues at endpoint!"
      [] op = "xsrf" -> "Unable to get antiforgery token!"
      [] op = "login" -> "Unable to log in!"
      [] op \in {"submit", "upload"} -> "Upload failed"
      [] op = "status" -> "Unable to get status"
      [] op \in {"review", "accept"} -> "Unable to accept"
      [] op = "download" -> "Unable to download"
      [] OTHER -> error.message

\* C6: the error raised after a non-success response is an Error whose
\* message names the failed step and is not empty, and in v3 it carries the
\* status code of the failed response.
C6_ErrorNamesStep ==
    \A i \in Idx : (trace[i].op \in NetworkOps /\ ~ trace[i].ok /\ pc = "aborted") =>
        /\ error.name = "Error"
        /\ error.message # ""
        /\ error.message = StepMessage(trace[i].op)
        /\ version = "v3" => error.status = trace[i].code

\* C7 as stated: getEndpoint(getEndpoint(s)) = getEndpoint(s) for every s.
C7_Original == epc = "twice" => twice = endpoint

\* the input, with one trailing slash removed, is not empty and does not end
\* with a slash
SettlesInOnePass(str) ==
    LET rest == IF Len(str) > 0 /\ str[Len(str)] = "/"
                  THEN SubSeq(str, 1, Len(str) - 1) ELSE str
    IN  Len(rest) > 0 /\ rest[Len(rest)] # "/"

\* C7 as amended: getEndpoint(getEndpoint(s)) = getEndpoint(s) exactly for the
\* inputs s that, with one trailing slash removed, are not empty and do not
\* end with a slash; for "", "/" and inputs with several trailing slashes the
\* second application removes one more slash.
C7_IdempotentOnSettled ==
    epc = "twice" => (twice = endpoint <=> SettlesInOnePass(rawEndpoint))

C7_Witness ==
    /\ epc = "twice"
    /\ rawEndpoint = <<"a", "/">>
    /\ endpoint = <<"h", "t", "t", "p", "s", ":", "/", "/", "a">>
    /\ twice = endpoint

Letters == {"a", "f", "h", "p", "s", "t"}

\* str begins with a URL scheme: letters followed by "://"
HasScheme(str) ==
    \E k \in 1..Len(str) :
        /\ \A j \in 1..k : str[j] \in Letters
        /\ Len(str) >= k + 3
        /\ SubSeq(str, k + 1, k + 3) = <<":", "/", "/">>

\* C8: getEndpoint returns the input with one trailing slash removed and with
\* "https://" prefixed exactly when the input has no URL scheme, and the
\* result always begins with a scheme.
C8_PrefixIffNoScheme ==
    epc # "raw" =>
        LET rest == IF Len(rawEndpoint) > 0 /\ rawEndpoint[Len(rawEndpoint)] = "/"
                      THEN SubSeq(rawEndpoint, 1, Len(rawEndpoint) - 1)
                      ELSE rawEndpoint
        IN  /\ endpoint = IF HasScheme(rawEndpoint)
                            THEN rest
                            ELSE <<"h", "t", "t", "p", "s", ":", "/", "/">> \o rest
            /\ HasScheme(endpoint)

\* C9: waitForReady having returned, v3 issues a review request iff the
\* returned status is reviewable and v2 issues an accept request iff the
\* returned status is not accepted; the download request follows the
\* accept/review request only after its success, and is issued without it
\* when it is not due.
AcceptDue == IF version = "v3" THEN status.reviewable ELSE ~ status.accepted

AcceptOp == IF version = "v3" THEN "review" ELSE "accept"

C9_FinalizerPolicy ==
    /\ ~ Issued({IF version = "v3" THEN "accept" ELSE "review"})
    /\ Issued({"review", "accept"}) => status # NoStatus /\ AcceptDue
    /\ (status # NoStatus /\ AcceptDue) => Issued({AcceptOp}) \/ pc = AcceptOp
    /\ (status # NoStatus /\ ~ AcceptDue) => Issued({"download"}) \/ pc = "download"
    /\ \A i \in Idx : trace[i].op = "download" =>
            IF AcceptDue
              THEN i > 1 /\ trace[i - 1].op = AcceptOp /\ trace[i - 1].ok
              ELSE i > 1 /\ trace[i - 1].op = "status"

C9_Witness ==
    /\ version = "v2"
    /\ status # NoStatus
    /\ status.accepted
    /\ Issued({"download"})
    /\ ~ Issued({"accept"})

\* C10: one order id is used by every upload, status, review/accept and
\* download request and names the output file; it is the id the caller
\* supplied whenever one was supplied, and then no create/qualify request,
\* scan-file read or upload is performed; otherwise it is the id the server
\* returned.
UsesId(id) ==
    /\ \A i \in Idx :
            trace[i].op \in {"submit", "upload", "status", "review", "accept", "download"}
                => trace[i].id = id
    /\ \A k \in 1..Len(written) : written[k].name = id

C10_OneOrderId ==
    IF args.orderid # Undefined
      THEN /\ UsesId(args.orderid)
           /\ ~ Issued({"create", "qualify", "readUpper", "readLower", "submit", "upload"})
      ELSE \E id \in ServerIds \cup {Undefined} : UsesId(id)

\* the archive holds an entry of that name with those bytes
HasEntry(name, data) ==
    \E i \in 1..Len(zip) : zip[i].name = name /\ zip[i].content = data

\* C11: the archive built for upload holds exactly two entries in v3 and
\* three in v2, named by the scan files' base names (and the order file's
\* name), each with the bytes of the corresponding input; it is the body of
\* the upload.
C11_ArchiveEntries ==
    Issued({"zip"}) =>
        /\ Len(zip) = IF version = "v3" THEN 2 ELSE 3
        /\ HasEntry(upperJawScanName.s, readFile(args.upperjaw))
        /\ HasEntry(lowerJawScanName.s, readFile(args.lowerjaw))
        /\ version = "v2" => HasEntry(orderFile.name, orderFile.content)
        /\ \A i \in Idx : trace[i].op \in {"submit", "upload"} => trace[i].body = zip

DownloadOk(i) == trace[i].op = "download" /\ trace[i].ok

TokenAt(hdrs, k, j) == IF j <= Len(hdrs[k][2]) THEN hdrs[k][2][j] ELSE ""

AllTokens(hdrs) ==
    {TokenAt(hdrs, k, j) : k \in 1..Len(hdrs), j \in 1..2} \ {""}

\* C13: login performs exactly three requests in this order: a token fetch
\* with no headers, the login POST with the cookie and verification header
\* of that fetch, a token fetch with the cookie of the login response; the
\* header set it returns holds the login cookie and the verification header
\* of the second fetch, and nothing obtained before login.
C13_LoginHandshake ==
    /\ Count("login") <= 1
    /\ Count("xsrf") <= 2
    /\ \A i \in Idx : trace[i].op = "login" =>
        /\ i > 1
        /\ trace[i - 1].op = "xsrf" /\ trace[i - 1].ok /\ trace[i - 1].hdrs = <<>>
        /\ trace[i].hdrs = <<<<"cookie", <<AntiforgeryToken(1)>>>>, VerificationHeader(1),
                             jsonHeader>>
    /\ \A i \in Idx : (trace[i].op = "xsrf" /\ trace[i].hdrs # <<>>) =>
        /\ i > 1
        /\ trace[i - 1].op = "login" /\ trace[i - 1].ok
        /\ trace[i].hdrs = <<<<"cookie", <<LoginToken>>>>>>
    /\ headers # NoHeaders =>
        /\ Count("login") = 1
        /\ Count("xsrf") = 2
        /\ \E k \in 1..Len(headers) :
                headers[k][1] = "cookie" /\ LoginToken \in AllTokens(<<headers[k]>>)
        /\ \E k \in 1..Len(headers) : headers[k] = VerificationHeader(2)
        /\ AntiforgeryToken(1) \notin AllTokens(headers)
        /\ VerificationHeader(1)[2][1] \notin AllTokens(headers)

C13_Witness ==
    /\ version = "v2"
    /\ headers # NoHeaders
    /\ Issued({"status"})

Terminated == pc \in {"done", "aborted"}

AllSucceeded == \A i \in Idx : trace[i].ok

AllPollsProcessing == \A i \in Idx : trace[i].op = "status" => IsPoll(i) /\ trace[i].st.processing

ReturnedNotProcessing == \E i \in Idx : IsPoll(i) /\ ~ trace[i].st.processing

\* the server has answered processing = true to every poll up to the bound
StillProcessing ==
    /\ pc = "status"
    /\ Count("status") = MaxPolls
    /\ AllPollsProcessing

C14_Outcome ==
    /\ (Terminated /\ AllSucceeded /\ ReturnedNotProcessing) =>
            \/ pc = "done" /\ Len(written) = 1
            \/ pc = "aborted" /\ error = PlainError("Processing failed")
    /\ AllPollsProcessing =>
            /\ ~ Issued(FinalOps)
            /\ pc \notin {"review", "accept", "download", "write", "done"}
            /\ status = NoStatus
            /\ written = <<>>
            /\ Count("sleep") \in {Count("status"), Count("status") - 1} \/ ~ Issued({"status"})
    /\ (AllPollsProcessing /\ AllSucceeded /\ Issued({"status"})) =>
            /\ pc \in {"sleep", "status"}
            /\ Count("sleep") = IF pc = "status" THEN Count("status") ELSE Count("status") - 1

C14_WitnessDone ==
    /\ pc = "done"
    /\ AllSucceeded
    /\ Count("sleep") = MaxPolls - 1

\* a qualification response whose error message is empty
ClearedAt(j) == trace[j].op = "qualify" /\ trace[j].resp.text = "clear"

UploadStages == {"readUpper", "readLower", "zip", "upload"}

\* C15: in v2 no scan file is read, no archive is built and no upload is issued
\* before a qualification response with an empty error message; a response
\* with an error message aborts the run with that message before any upload,
\* status, accept or download; the upload goes under the order id of the
\* qualification response.
C15_QualificationGate ==
    version = "v2" =>
        /\ Count("qualify") <= 1
        /\ \A i \in Idx : trace[i].op \in UploadStages =>
                \E j \in 1..(i - 1) : ClearedAt(j)
        /\ pc \in UploadStages => \E j \in Idx : ClearedAt(j)
        /\ \A i \in Idx : (trace[i].op = "qualify" /\ trace[i].resp.text = "error") =>
                /\ i = Len(trace)
                /\ pc = "aborted"
                /\ error = PlainError("not qualified")
                /\ ~ Issued(UploadStages \cup {"status", "accept", "download"})
        /\ \A i \in Idx : trace[i].op = "upload" =>
                \E j \in 1..(i - 1) : ClearedAt(j) /\ trace[i].id = trace[j].resp.id

C15_Witness ==
    /\ version = "v2"
    /\ Len(trace) > 0
    /\ trace[Len(trace)].op = "upload"
    /\ trace[Len(trace)].id = Str(<<"S">>)

\* the network calls of the run, in the order they were issued
NetworkCalls == SelectSeq(trace, LAMBDA ev : ev.op \in NetworkOps)

\* the stage of a network call that follows login
Stage(op) ==
    CASE op \in {"create", "qualify"} -> 5
      [] op \in {"submit", "upload"} -> 6
      [] op = "status" -> 7
      [] op \in {"review", "accept"} -> 8
      [] op = "download" -> 9
      [] OTHER -> 0

LoginCalls == <<"check", "xsrf", "login", "xsrf">>

\* the calls follow the pipeline order, whether or not an order is created
C16_StageOrder ==
    LET net == NetworkCalls
        n == Len(net)
    IN  /\ \A k \in 1..n : k <= 4 => net[k].op = LoginCalls[k]
        /\ \A k \in 1..n : k > 4 => Stage(net[k].op) >= 5
        /\ n >= 5 => Stage(net[5].op) \in {5, 7}
        /\ \A k \in 5..(n - 1) :
            LET a == Stage(net[k].op)
                b == Stage(net[k + 1].op)
            IN  CASE a = 5 -> b = 6
                  [] a = 6 -> b = 7
                  [] a = 7 -> b \in {7, 8, 9}
                  [] a = 8 -> b = 9
                  [] OTHER -> FALSE
        /\ \A k \in 1..n : net[k].op \in
                (IF version = "v3" THEN NetworkOps \ {"qualify", "upload", "accept"}
                                   ELSE NetworkOps \ {"create", "submit", "review"})
        /\ \A i \in Idx : trace[i].op = "submit" =>
                \E j \in 1..(i - 1) :
                    /\ trace[j].op = "create" /\ trace[j].ok
                    /\ trace[i].id = trace[j].resp.id

\* C16: the network calls of a run are a prefix of the pipeline order: endpoint
\* check, token fetch, login, token fetch, then create and submit (v3) or
\* qualify and upload (v2) unless an order id was supplied, then status polls,
\* at most one review/accept, one download; v3 submits only after create
\* succeeded and under the id it returned.
C16_PipelinePrefix ==
    /\ C16_StageOrder
    /\ args.orderid # Undefined => ~ Issued({"create", "qualify", "submit", "upload"})
    /\ (args.orderid = Undefined /\ Len(NetworkCalls) >= 5) => Stage(NetworkCalls[5].op) = 5

\* a run with a supplied order id that created and submitted an order
C16_SuppliedIdCreates ==
    /\ args.orderid # Undefined
    /\ Issued({"submit", "upload"})
    /\ Issued({"download"})

\* the request of trace[i] carried the header set and one Content-Type header
SendsHeaderSet(i) ==
    /\ Len(trace[i].hdrs) = Len(headers) + 1
    /\ SubSeq(trace[i].hdrs, 1, Len(headers)) = headers
    /\ trace[i].hdrs[Len(trace[i].hdrs)][1] = "Content-Type"

\* C17: the header set login returned is never modified afterwards: every
\* request of createOrder/upload, submitOrder, getStatus, review/accept and
\* download carries exactly that set plus one Content-Type header, and the
\* set keeps its contents until the end of the run.
C17_HeaderSetUnmodified ==
    /\ [] (\A i \in Idx : trace[i].op \in SessionOps =>
                headers # NoHeaders /\ SendsHeaderSet(i))
    /\ [][headers # NoHeaders => headers' = headers]_vars

C17_Witness ==
    /\ pc = "done"
    /\ version = "v3"
    /\ Issued({"create"}) /\ Issued({"review"})
    /\ Count("status") >= 2
    /\ headers = finalHeaders(AntiforgeryToken(2), VerificationHeader(2), LoginToken)

\* C18: at every point of a run at most one network request, file read or
\* write, archive generation or poll sleep is outstanding, and it is the one
\* the script is waiting for; nothing is outstanding once the run has ended.
C18_OneOutstanding ==
    /\ Cardinality(inflight) <= 1
    /\ inflight \subseteq ({pc} \cap AwaitPoints)
    /\ pc \in {"done", "aborted"} => inflight = {}

C18_Witness ==
    /\ inflight = {"readLower"}
    /\ trace[Len(trace)].op = "readUpper"
    /\ trace[Len(trace)].ok

\* the arguments the claim calls invalid
ArgsInvalid ==
    \/ args.email = Undefined
    \/ args.password = Undefined
    \/ args.output = Undefined
    \/ /\ args.orderid = Undefined
       /\ \/ args.upperjaw = Undefined
          \/ args.lowerjaw = Undefined
          \/ args.unns = Undefined
          \/ ~ Truthy(upperJawScanName)
          \/ ~ Truthy(lowerJawScanName)

ArgumentErrors ==
    {PlainError("Please supply email and password!"),
     PlainError("Please supply paths to upper and lower jaws and the unns."),
     PlainError("Please supply a path to the output"),
     PlainError("Scans paths not correct!")}

\* C19: with a missing email, password or output directory, or with no order
\* id and a missing jaw path, unns or scan base name, the script throws before
\* the endpoint check and any other network call; a run that reaches
\* createOrder / upload has both scan names and unns defined.
C19_ValidationFirst ==
    /\ ArgsInvalid =>
            /\ trace = <<>>
            /\ inflight = {}
            /\ pc \in {"load", "aborted"}
            /\ pc = "aborted" => error \in ArgumentErrors
    /\ (pc \in {"create", "qualify"} \/ Issued({"create", "qualify", "submit", "upload"})) =>
            /\ Truthy(upperJawScanName)
            /\ Truthy(lowerJawScanName)
            /\ args.unns # Undefined

C19_Witness ==
    /\ pc = "aborted"
    /\ trace = <<>>
    /\ error = PlainError("Scans paths not correct!")
    /\ args.upperjaw = Str(<<"d", "/">>)

\* C20: the first network call of a run is a GET of the endpoint root that
\* carries no header and no body; when it returns a non-success status the
\* run aborts there, before any token fetch or login.
C20_EndpointCheckFirst ==
    /\ NetworkCalls # <<>> =>
            /\ trace[1].op = "check"
            /\ trace[1].hdrs = <<>>
            /\ trace[1].body = <<>>
            /\ trace[1].id = Undefined
            /\ Count("check") = 1
    /\ (NetworkCalls # <<>> /\ ~ trace[1].ok) =>
            /\ Len(trace) = 1
            /\ pc = "aborted"
            /\ inflight = {}
            /\ ~ Issued({"xsrf", "login"})
    /\ pc \in {"xsrf1", "login", "xsrf2"} => trace[1].op = "check" /\ trace[1].ok

C20_Witness ==
    /\ Len(trace) = 1
    /\ trace[1].op = "check"
    /\ ~ trace[1].ok
    /\ pc = "aborted"
    /\ error = StepError("Issues at endpoint!", 500)

\* the header set of an event carries the text of a secret as a token
InHeaders(ev, secret) ==
    \E k \in 1..Len(ev.hdrs) : \E j \in 1..Len(ev.hdrs[k][2]) :
        <<ev.hdrs[k][2][j]>> = secret.s

\* the body or the order id of an event carries a secret
InBody(ev, secret) ==
    \/ ev.id = secret
    \/ \E k \in 1..Len(ev.body) : ev.body[k] = secret

Secrets == {args.email, args.password}

\* the request of an event, with the body of the login POST left out
RequestOf(ev) ==
    [op |-> ev.op, id |-> ev.id, hdrs |-> ev.hdrs,
     body |-> IF ev.op = "login" THEN <<>> ELSE ev.body]

\* C21: the email and the password are sent in one request of a run only, in
\* the body of the login POST, and in no header and no other body; a second
\* run that differs from the first in the password only and gets the same
\* responses issues the same requests except for the login body.
C21_CredentialsOnlyInLogin ==
    /\ Count("login") <= 1
    /\ \A i \in Idx : \A secret \in Secrets :
            /\ ~ InHeaders(trace[i], secret)
            /\ InBody(trace[i], secret) => trace[i].op = "login"
    /\ \A i \in Idx : trace[i].op = "login" =>
            trace[i].body = <<args.email, args.password>>
    /\ first # NoFirst =>
            /\ args.password # first.password
            /\ Len(trace) <= Len(first.trace)
            /\ \A i \in Idx : RequestOf(trace[i]) = RequestOf(first.trace[i])
            /\ \A i \in Idx : trace[i].op = "login" =>
                    /\ first.trace[i].body = <<args.email, first.password>>
                    /\ trace[i].body # first.trace[i].body

\* the second run has reached its end after the same requests as the first
C21_Witness ==
    /\ first # NoFirst
    /\ pc = "done"
    /\ Len(trace) = Len(first.trace)
    /\ Issued({"login"}) /\ Issued({"create"}) /\ Issued({"download"})

====
